---- MODULE Spec2Model ----
(***************************************************************************)
(* Model of scripts/firebase-model-injector.py: the parser of *_model.json *)
(* files (parse_model_file), the push of one parsed model to the document  *)
(* store (push_shared_data_to_firestore, push_to_firestore) and the loop   *)
(* of main over the discovered files.                                      *)
(*                                                                         *)
(* The store client `db` is the external collaborator: a write (.set) is   *)
(* either applied or rejected with an exception; building a reference      *)
(* (.collection, .document) never fails.                                   *)
(***************************************************************************)
EXTENDS Integers, Sequences, FiniteSets, TLC

\* ------------------------------------------------------------------
\* Bounds of the model
\* ------------------------------------------------------------------
MaxFiles == 2

MaxRuns == 2

MaxItems == 2

\* ------------------------------------------------------------------
\* JSON values.  Every value is tagged with its Python type; a string
\* or a number carries its text, an object a function from keys to
\* values, a list a sequence of values, a datetime its UTC rendering.
\* ------------------------------------------------------------------
Str(s) == [k |-> "str", v |-> s]

Num(s) == [k |-> "num", v |-> s]

Obj(f) == [k |-> "obj", v |-> f]

List(q) == [k |-> "list", v |-> q]

Dt(s) == [k |-> "dt", v |-> s]

EmptyDoc == [key \in {} |-> Str("")]

IsDict(x) == x.k = "obj"

IsList(x) == x.k = "list"

IsStr(x) == x.k = "str"

\* bool(x) of a scalar: "", 0 are falsy
Truthy(x) ==
  CASE x.k = "str" -> x.v # ""
    [] x.k = "num" -> x.v # "0"
    [] OTHER -> TRUE

\* str(x) of a scalar document id
ToStr(x) == x.v

\* An insertion-ordered dict (the top-level JSON object, a sharedData map)
\* is a sequence of [key, val] pairs with distinct keys.
Keys(d) == {d[i].key : i \in DOMAIN d}

Has(d, key) == \E i \in DOMAIN d : d[i].key = key

Get(d, key) == d[CHOOSE i \in DOMAIN d : d[i].key = key].val

Del(d, key) == SelectSeq(d, LAMBDA p : p.key # key)

Range(q) == {q[i] : i \in DOMAIN q}

\* dict update {**a, **b}: b wins
Merge(a, b) == [key \in (DOMAIN a) \cup (DOMAIN b) |->
                  IF key \in DOMAIN b THEN b[key] ELSE a[key]]

Without(f, key) == [x \in (DOMAIN f) \ {key} |-> f[x]]

\* ------------------------------------------------------------------
\* Strings
\* ------------------------------------------------------------------
UpperChars == "ABCDEFGHIJKLMNOPQRSTUVWXYZ"

LowerChars == "abcdefghijklmnopqrstuvwxyz"

CharAt(s, i) == SubSeq(s, i, i)

LowerChar(c) ==
  IF \E i \in 1..Len(UpperChars) : CharAt(UpperChars, i) = c
  THEN CharAt(LowerChars, CHOOSE i \in 1..Len(UpperChars) : CharAt(UpperChars, i) = c)
  ELSE c

RECURSIVE Lower(_)
Lower(s) ==
  IF s = "" THEN "" ELSE LowerChar(CharAt(s, 1)) \o Lower(SubSeq(s, 2, Len(s)))

RECURSIVE Replace(_, _, _)
Replace(s, old, new) ==
  IF s = "" THEN ""
  ELSE (IF CharAt(s, 1) = old THEN new ELSE CharAt(s, 1))
         \o Replace(SubSeq(s, 2, Len(s)), old, new)

EndsWith(s, c) == s # "" /\ CharAt(s, Len(s)) = c

\* str.rstrip(c): strips every trailing c
RECURSIVE RStrip(_, _)
RStrip(s, c) ==
  IF EndsWith(s, c) THEN RStrip(SubSeq(s, 1, Len(s) - 1), c) ELSE s

\* s.split(c)
RECURSIVE Split(_, _)
Split(s, c) ==
  IF \A i \in 1..Len(s) : CharAt(s, i) # c THEN <<s>>
  ELSE LET i == CHOOSE j \in 1..Len(s) :
                  CharAt(s, j) = c /\ \A h \in 1..(j - 1) : CharAt(s, h) # c
       IN <<SubSeq(s, 1, i - 1)>> \o Split(SubSeq(s, i + 1, Len(s)), c)

\* ------------------------------------------------------------------
\* Path classifier
\* ------------------------------------------------------------------
\* extract_collection_name_from_path without the .lower()
ExtractNameNoLower(parts) ==
  IF parts = <<>> THEN "root"
  ELSE Replace(parts[Len(parts)], "_", "-")

\* parts: the directories of the file below app_dir, file name excluded
extract_collection_name_from_path(parts) ==
  IF parts = <<>> THEN "root"
  ELSE Replace(Lower(parts[Len(parts)]), "_", "-")

\* ------------------------------------------------------------------
\* Model parser
\* ------------------------------------------------------------------
\* ExtractFields without the `del data[field]`
RECURSIVE ExtractFieldsKeep(_, _, _)
ExtractFieldsKeep(data, obj, fields) ==
  IF fields = <<>> THEN [data |-> data, obj |-> obj]
  ELSE LET field == Head(fields) IN
       IF Has(data, field)
       THEN ExtractFieldsKeep(data, Merge(obj, (field :> Get(data, field))),
                              Tail(fields))
       ELSE ExtractFieldsKeep(data, obj, Tail(fields))

\* for field in shared_fields: if field in data: move it to shared_data_obj
RECURSIVE ExtractFields(_, _, _)
ExtractFields(data, obj, fields) ==
  IF fields = <<>> THEN [data |-> data, obj |-> obj]
  ELSE LET field == Head(fields) IN
       IF Has(data, field)
       THEN ExtractFields(Del(data, field),
                          Merge(obj, (field :> Get(data, field))),
                          Tail(fields))
       ELSE ExtractFields(data, obj, Tail(fields))

\* if entity_name in data and it is an object: merge its keys (filtered by
\* shared_fields when that list is not empty) and delete the key
MergeEntityObject(data, obj, entity_name, fields) ==
  IF Has(data, entity_name) /\ IsDict(Get(data, entity_name))
  THEN LET src == Get(data, entity_name).v
           keep == {key \in DOMAIN src : key \in Range(fields) \/ fields = <<>>}
       IN [data |-> Del(data, entity_name),
           obj |-> Merge(obj, [key \in keep |-> src[key]])]
  ELSE [data |-> data, obj |-> obj]

\* one iteration of the loop over meta['sharedData'].items()
ProcessEntity(st, entity) ==
  IF ~IsDict(entity.val) THEN st
  ELSE LET cfg == entity.val.v
           shared_collection ==
             IF "collection" \in DOMAIN cfg THEN cfg["collection"]
             ELSE "_shared/" \o entity.key
           shared_fields == IF "fields" \in DOMAIN cfg THEN cfg["fields"] ELSE <<>>
           a == ExtractFields(st.data, EmptyDoc, shared_fields)
           b == MergeEntityObject(a.data, a.obj, entity.key, shared_fields)
       IN [data |-> b.data,
           shared_data |->
             IF DOMAIN b.obj # {}
             THEN Append(st.shared_data,
                         [name |-> entity.key, collection |-> shared_collection,
                          fields |-> shared_fields, data |-> b.obj])
             ELSE st.shared_data]

RECURSIVE ProcessSharedData(_, _)
ProcessSharedData(st, shared_config) ==
  IF shared_config = <<>> THEN st
  ELSE ProcessSharedData(ProcessEntity(st, Head(shared_config)), Tail(shared_config))

NoModel == [ok |-> FALSE]

\* file: [dir: directories below app_dir, json: the file's content]
parse_model_file(file) ==
  IF file.json.k # "obj" THEN NoModel
  ELSE
    LET data == file.json.v
        default_name == extract_collection_name_from_path(file.dir)
    IN IF ~Has(data, "_metadata")
       THEN [ok |-> TRUE, data |-> data, collection_name |-> default_name,
             document_id |-> "main", shared_data |-> <<>>]
       ELSE
         LET meta == Get(data, "_metadata").v
             st == IF "sharedData" \in DOMAIN meta
                   THEN ProcessSharedData([data |-> data, shared_data |-> <<>>],
                                          meta["sharedData"])
                   ELSE [data |-> data, shared_data |-> <<>>]
         IN \* del data['_metadata'] raises KeyError when the key is gone
            IF ~Has(st.data, "_metadata") THEN NoModel
            ELSE [ok |-> TRUE,
                  data |-> Del(st.data, "_metadata"),
                  collection_name |->
                    IF "collectionName" \in DOMAIN meta
                    THEN meta["collectionName"] ELSE default_name,
                  document_id |->
                    IF "documentId" \in DOMAIN meta
                    THEN meta["documentId"] ELSE "main",
                  shared_data |-> st.shared_data]

\* ------------------------------------------------------------------
\* Shape classifier and document mapper
\* ------------------------------------------------------------------
DomainId == "d1"

\* os.getenv('FIREBASE_UUID', 'unknown')
firebase_uuid == "unknown"

SourceMarker == "firebase-model-injector.py"

ProvenanceKeys == {"_injectedAt", "_injectedBy", "_source"}

\* datetime.now(timezone.utc).isoformat(): the reading of the clock is kept
\* as one opaque text, the same at every write
Now == "<now>"

\* the three injected fields; now is the reading of the clock
Provenance(now) ==
  [key \in ProvenanceKeys |->
     CASE key = "_injectedAt" -> Str(now)
       [] key = "_injectedBy" -> Str(firebase_uuid)
       [] OTHER -> Str(SourceMarker)]

IsArrayOfObjects(value) ==
  IsList(value) /\ Len(value.v) > 0 /\ IsDict(value.v[1])

KeysOf(pairs) == [i \in 1..Len(pairs) |-> pairs[i].key]

\* the fields holding a non-empty list whose first element is an object
array_fields(data) ==
  KeysOf(SelectSeq(data, LAMBDA p : IsArrayOfObjects(p.val)))

\* the other fields that hold an object
single_object_fields(data) ==
  KeysOf(SelectSeq(data, LAMBDA p : ~IsArrayOfObjects(p.val) /\ IsDict(p.val)))

collection_map ==
  [field \in {"clients", "assessments", "questionnaires", "installations",
              "layouts", "recentClients"} |->
     CASE field = "questionnaires" -> "questionnaireTemplates"
       [] field = "recentClients" -> "clients"
       [] OTHER -> field]

MapValues == {collection_map[field] : field \in DOMAIN collection_map}

\* the collection the items of an array field are written to
ResolveCollection(array_field, collection_name) ==
  LET derived ==
        IF array_field \in DOMAIN collection_map THEN collection_map[array_field]
        ELSE IF EndsWith(array_field, "s") THEN RStrip(array_field, "s")
        ELSE array_field
  IN IF collection_name # "" /\ collection_name \in MapValues
     THEN collection_name ELSE derived

ItemDateFields ==
  {"createdAt", "updatedAt", "conductedDate", "scheduledDate", "deliveryDate",
   "completionDate"}

DocDateFields == {"createdAt", "updatedAt", "conductedDate", "scheduledDate"}

\* dateutil's parser on the date texts of the inputs: texts without a zone
\* come back naive, any other text raises
NaiveDates == {"2024-01-05"}

AwareDates == {"2024-01-05T10:00:00+02:00"}

\* dt = date_parser.parse(text); if dt.tzinfo is None: dt = dt.replace(tzinfo=utc)
ParseDate(value) ==
  IF value.v \in NaiveDates THEN Dt(value.v \o "T00:00:00+00:00")
  ELSE IF value.v \in AwareDates THEN Dt(value.v)
  ELSE value

NormalizeDates(doc, date_fields) ==
  [key \in DOMAIN doc |->
     IF key \in date_fields /\ IsStr(doc[key]) THEN ParseDate(doc[key])
     ELSE doc[key]]

\* ItemDocId that never uses the item's own id
ItemDocIdGenerated(item, generated) == generated

\* item.get('id'), replaced by a generated id when missing or falsy
ItemDocId(item, generated) ==
  IF "id" \in DOMAIN item.v /\ Truthy(item.v["id"]) THEN ToStr(item.v["id"])
  ELSE generated

\* ItemData without the `del item_data['id']`
ItemDataKeepId(item, now) ==
  Merge(NormalizeDates(item.v, ItemDateFields), Provenance(now))

\* the data written for one array item
ItemData(item, now) ==
  Without(Merge(NormalizeDates(item.v, ItemDateFields), Provenance(now)), "id")

AsDoc(data) == [key \in Keys(data) |-> Get(data, key)]

\* the data written by the single-document branch
SingleData(data, now) ==
  Merge(NormalizeDates(AsDoc(data), DocDateFields), Provenance(now))

\* FallbackData with the fields of the payload spread after the injected ones
FallbackDataPayloadLast(data, now) == Merge(Provenance(now), AsDoc(data))

\* the data written by the fallback branch
FallbackData(data, now) == Merge(AsDoc(data), Provenance(now))

\* the data written for one shared entity
SharedData(entity, now) == Merge(entity.data, Provenance(now))

\* the document the shared entity is written to
SharedPath(entity) ==
  LET collection_parts == Split(entity.collection, "/") IN
  IF Len(collection_parts) = 2
  THEN <<"project-" \o DomainId, collection_parts[1], collection_parts[2], "main">>
  ELSE <<"project-" \o DomainId, entity.collection, "main">>

\* PageBranch with the test of the object fields before that of the arrays
PageBranchObjectFirst(data) ==
  IF single_object_fields(data) # <<>> THEN "single"
  ELSE IF array_fields(data) # <<>> THEN "array"
  ELSE "fallback"

\* the branch of push_to_firestore taken for the page payload
PageBranch(data) ==
  IF array_fields(data) # <<>> THEN "array"
  ELSE IF single_object_fields(data) # <<>> THEN "single"
  ELSE "fallback"

\* doc_ref.set(data) / doc_ref.set(data, merge=True) when the store accepts it
ApplyWrite(docs, w) ==
  [p \in (DOMAIN docs) \cup {w.path} |->
     IF p # w.path THEN docs[p]
     ELSE IF w.merge /\ p \in DOMAIN docs THEN Merge(docs[p], w.data)
     ELSE w.data]

\* EntryPc that goes to the page payload at once
EntryPcSkipShared(model) == PageBranch(model.data)

\* the first step of push_to_firestore: the shared data, if any, comes first
EntryPc(model) ==
  IF model.shared_data # <<>> THEN "shared" ELSE PageBranch(model.data)

\* ExitCode that reports success whatever the count
ExitCodeZero(errors) == 0

ExitCode(errors) == IF errors = 0 THEN 0 ELSE 1

\* ------------------------------------------------------------------
\* The model files of a run
\* ------------------------------------------------------------------
P(key, val) == [key |-> key, val |-> val]

F(dir, pairs) == [dir |-> dir, json |-> [k |-> "obj", v |-> pairs]]

\* a file json.load rejects, and a file open() cannot read
InvalidFiles ==
  {[dir |-> <<"dashboard">>, json |-> [k |-> why, v |-> <<>>]] :
     why \in {"invalid", "unreadable"}}

Meta(f) == <<P("_metadata", Obj(f))>>

Acme == Obj([id |-> Str("c1"), name |-> Str("Acme")])

ItemPool ==
  {Acme,
   Obj([id |-> Num("1"), createdAt |-> Str("2024-01-05")]),
   Obj([name |-> Str("NoId"), deliveryDate |-> Str("not-a-date")]),
   Obj([id |-> Str(""), createdAt |-> Str("2024-01-05T10:00:00+02:00")]),
   Str("stray")}

ItemLists == UNION {[1..n -> ItemPool] : n \in 1..MaxItems}

Siblings ==
  {<<>>,
   <<P("summary", Obj([count |-> Num("3")])), P("createdAt", Str("2024-01-05"))>>}

\* one list field with every item list, alone or beside other fields
ItemFiles ==
  {F(<<"dashboard">>, <<P("clients", List(q))>> \o sib) :
     q \in ItemLists, sib \in Siblings}

ArrayFieldNames ==
  {"clients", "recentClients", "questionnaires", "address", "items", "data"}

NameMetas ==
  {<<>>, Meta([collectionName |-> "clients"]), Meta([collectionName |-> "reports"])}

\* one array field under every name, directory and declared collection name
NameFiles ==
  {F(dir, <<P(field, List(<<Acme>>))>> \o meta) :
     field \in ArrayFieldNames,
     dir \in {<<>>, <<"dashboard">>, <<"clients">>, <<"Pages", "Layouts">>},
     meta \in NameMetas}

TwoArrayFiles ==
  {F(<<"dashboard">>,
     <<P("total", Num("3")),
       P("clients", List(<<Acme>>)),
       P("layouts", List(<<Obj([id |-> Str("l1")]), Obj([id |-> Str("l2")])>>))>>
     \o meta) : meta \in {<<>>, Meta([collectionName |-> "layouts"])}}

FieldLists == {<<>>, <<"name">>, <<"org">>, <<"name", "tier">>}

OrgConfigs ==
  {Obj([fields |-> fl]) : fl \in FieldLists}
    \cup {Obj([collection |-> "orgs", fields |-> fl]) : fl \in FieldLists}
    \cup {Obj([collection |-> "_shared/orgs"]), Str("orgs")}

AcctConfigs ==
  {Obj([fields |-> fl]) : fl \in FieldLists} \cup {Str("accounts")}

SharedConfigs ==
  {<<P("org", c)>> : c \in OrgConfigs}
    \cup {<<P("acct", c)>> : c \in AcctConfigs}
    \cup {<<P("org", c), P("acct", d)>> : c \in OrgConfigs, d \in AcctConfigs}
    \cup {<<P("acct", d), P("org", c)>> : c \in OrgConfigs, d \in AcctConfigs}

OrgObject == Obj([name |-> Str("Y"), tier |-> Str("gold")])

SharedPayloads ==
  {<<P("name", Str("X"))>>,
   <<P("name", Str("X")), P("org", OrgObject)>>,
   <<P("name", Str("X")), P("org", OrgObject), P("clients", List(<<Acme>>))>>}

\* every sharedData declaration over every payload
SharedFiles ==
  {F(<<"dashboard">>, d \o Meta([sharedData |-> sc])) :
     d \in SharedPayloads, sc \in SharedConfigs}

DateTexts == {"2024-01-05", "2024-01-05T10:00:00+02:00", "not-a-date"}

\* a payload with an object field and no array field
SingleFiles ==
  {F(<<"dashboard", "Client_Detail">>,
     <<P("client", Obj([name |-> Str("Acme")])), P(dk, Str(d))>> \o meta) :
     dk \in {"createdAt", "deliveryDate"}, d \in DateTexts,
     meta \in {<<>>, Meta([collectionName |-> "client-detail",
                           documentId |-> "c-42"])}}

Dirs ==
  {<<>>, <<"dashboard">>, <<"dashboard", "Client_Detail">>, <<"My_Pages">>,
   <<"installations">>}

DirMetas ==
  {<<>>, Meta([collectionName |-> "dashboard"]),
   Meta([collectionName |-> "My_Coll"]),
   Meta([collectionName |-> "questionnaireTemplates"])}

\* a payload of scalars only, under every directory and declared name
FallbackFiles ==
  {F(dir, <<P("a", Num("1"))>> \o meta) : dir \in Dirs, meta \in DirMetas}
    \cup {F(<<"dashboard">>, d) :
            d \in {<<>>, <<P("createdAt", Str("2024-01-05"))>>,
                   <<P("tags", List(<<>>))>>,
                   <<P("tags", List(<<Str("x"), Str("y")>>))>>}}

\* sharedData declarations that name the `_metadata` key itself, as a listed
\* field or as the name of an entity
MetadataConfigs ==
  {<<P("org", Obj([fields |-> <<"_metadata">>]))>>,
   <<P("org", Obj([fields |-> <<"name", "_metadata">>]))>>,
   <<P("_metadata", Obj([fields |-> <<>>]))>>,
   <<P("_metadata", Obj([fields |-> <<"name">>]))>>,
   <<P("org", Obj([fields |-> <<"name">>])), P("_metadata", Str("x"))>>}

MetadataFiles ==
  {F(<<"dashboard">>, <<P("name", Str("X"))>> \o Meta([sharedData |-> sc])) :
     sc \in MetadataConfigs}

\* two entities that share one target collection, given with one, two and
\* three path segments
SameTargetConfigs ==
  {<<P("org", Obj([collection |-> c, fields |-> <<"name">>])),
     P("acct", Obj([collection |-> c, fields |-> <<"tier">>]))>> :
     c \in {"orgs", "_shared/orgs", "a/b/c"}}

\* two items under one id that hold different fields
SameIdItems ==
  <<Obj([id |-> Str("c1"), name |-> Str("Acme")]),
    Obj([id |-> Str("c1"), tier |-> Str("gold")])>>

\* writes that meet a document an earlier write of the same run has made
OverlapFiles ==
  {F(<<"dashboard">>,
     <<P("name", Str("X")), P("tier", Str("gold"))>> \o page
       \o Meta([sharedData |-> sc])) :
     sc \in SameTargetConfigs,
     page \in {<<P("a", Num("1"))>>, <<P("clients", List(SameIdItems))>>}}

\* an item that already has fields under the names of the injected ones
StampedItem ==
  Obj(("_source" :> Str("manual")) @@ ("_injectedAt" :> Str("2024-01-05"))
        @@ [id |-> Str("c9")])

StampedPairs ==
  <<P("_injectedBy", Str("someone")), P("_injectedAt", Str("2024-01-05"))>>

\* payloads that already have such fields, one for every kind of write
StampedFiles ==
  {F(<<"dashboard">>, StampedPairs \o page \o meta) :
     page \in {<<P("a", Num("1"))>>,
               <<P("client", Obj([name |-> Str("Acme")]))>>,
               <<P("clients", List(<<StampedItem>>))>>},
     meta \in {<<>>,
               Meta([sharedData |->
                       <<P("org", Obj([fields |-> <<"_injectedBy">>]))>>])}}

RichFiles ==
  InvalidFiles \cup ItemFiles \cup NameFiles \cup TwoArrayFiles \cup SharedFiles
    \cup SingleFiles \cup FallbackFiles \cup MetadataFiles \cup OverlapFiles
    \cup StampedFiles

\* the files of the runs over several files
SmallFiles ==
  {[dir |-> <<"dashboard">>, json |-> [k |-> "unreadable", v |-> <<>>]],
   F(<<"clients">>,
     <<P("total", Num("2")),
       P("clients", List(<<Acme, Obj([name |-> Str("NoId")])>>))>>),
   F(<<"dashboard">>,
     <<P("name", Str("X")), P("a", Num("1"))>>
       \o Meta([sharedData |->
                  <<P("org", Obj([collection |-> "_shared/orgs",
                                  fields |-> <<"name">>]))>>])),
   F(<<"dashboard", "Client_Detail">>,
     <<P("client", Obj([name |-> Str("Acme")])),
       P("createdAt", Str("2024-01-05"))>>)}

FileLists ==
  {<<f>> : f \in RichFiles}
    \cup UNION {[1..n -> SmallFiles] : n \in 0..MaxFiles}

\* ------------------------------------------------------------------
\* The run: main over the discovered files, one step per store call
\* ------------------------------------------------------------------
VARIABLES
  files,          \* model_files: what find_model_files returned
  dry_run,        \* args.dry_run
  run,            \* the number of the current invocation of the script
  pc,             \* "scan", "parse", "shared", "array", "single", "fallback", "done"
  idx,            \* position of the loop over model_files
  parsed,         \* the ParsedModelData of the current file
  sIdx,           \* position of the loop over shared_data
  fIdx,           \* position of the loop over array_fields
  iIdx,           \* position of the loop over items
  store,          \* the documents of the store, by path
  writeLog,       \* the .set calls of this run, in order
  outcomes,       \* per processed file: "success", "parse_error", "push_error"
  success_count,
  error_count,
  exit_code,      \* -1 while the script runs
  autoId,         \* ids the store has generated so far
  snapshot,       \* the store when this run started
  prev_ok         \* the run before this one wrote for real and exited with 0

vars ==
  <<files, dry_run, run, pc, idx, parsed, sIdx, fIdx, iIdx, store, writeLog,
    outcomes, success_count, error_count, exit_code, autoId, snapshot,
    prev_ok>>

NoDocs == [p \in {} |-> EmptyDoc]

Init ==
  /\ files \in FileLists
  /\ dry_run \in BOOLEAN
  /\ run = 1
  /\ pc = "scan"
  /\ idx = 1
  /\ parsed = NoModel
  /\ sIdx = 1
  /\ fIdx = 1
  /\ iIdx = 1
  /\ store = NoDocs
  /\ writeLog = <<>>
  /\ outcomes = <<>>
  /\ success_count = 0
  /\ error_count = 0
  /\ exit_code = -1
  /\ autoId = 0
  /\ snapshot = NoDocs
  /\ prev_ok = FALSE

\* model_files = find_model_files(app_dir); sys.exit(0) when there is none
Scan ==
  /\ pc = "scan"
  /\ IF files = <<>>
     THEN pc' = "done" /\ exit_code' = 0
     ELSE pc' = "parse" /\ exit_code' = exit_code
  /\ idx' = 1
  /\ success_count' = 0
  /\ error_count' = 0
  /\ UNCHANGED <<files, dry_run, run, parsed, sIdx, fIdx, iIdx, store, writeLog,
                 outcomes, autoId, snapshot, prev_ok>>

\* push_to_firestore returned ok: count the file, go to the next one
Return(ok) ==
  /\ success_count' = IF ok THEN success_count + 1 ELSE success_count
  /\ error_count' = IF ok THEN error_count ELSE error_count + 1
  /\ outcomes' = Append(outcomes, IF ok THEN "success" ELSE "push_error")
  /\ idx' = idx + 1
  /\ pc' = "parse"
  /\ sIdx' = 1
  /\ fIdx' = 1
  /\ iIdx' = 1

Stay(next_pc, s, f, i) ==
  /\ pc' = next_pc
  /\ sIdx' = s
  /\ fIdx' = f
  /\ iIdx' = i
  /\ UNCHANGED <<success_count, error_count, outcomes, idx>>

\* OnResult without the `return False` of the except clause
OnResultContinue(ok, after) == after

\* try: ...set(...) except Exception: return False
OnResult(ok, after) == IF ok THEN after ELSE Return(FALSE)

\* doc_ref.set(...): the store applies the write or rejects it
Issue(w) ==
  /\ store' = IF w.ok THEN ApplyWrite(store, w) ELSE store
  /\ writeLog' = Append(writeLog, w)

\* parsed = parse_model_file(...) and the entry of push_to_firestore
ParseFile ==
  /\ pc = "parse"
  /\ idx <= Len(files)
  /\ LET m == parse_model_file(files[idx]) IN
       /\ parsed' = m
       /\ IF ~m.ok
          THEN /\ error_count' = error_count + 1
               /\ outcomes' = Append(outcomes, "parse_error")
               /\ idx' = idx + 1
               /\ UNCHANGED <<pc, success_count, sIdx, fIdx, iIdx>>
          ELSE Stay(EntryPc(m), 1, 1, 1)
  /\ UNCHANGED <<files, dry_run, run, store, writeLog, exit_code, autoId,
                 snapshot, prev_ok>>

\* PushSharedEntity without the merge=True of the .set call
PushSharedEntityReplace ==
  /\ pc = "shared"
  /\ LET entity == parsed.shared_data[sIdx]
         after == IF sIdx < Len(parsed.shared_data)
                  THEN Stay("shared", sIdx + 1, 1, 1)
                  ELSE Stay(PageBranch(parsed.data), 1, 1, 1)
     IN IF dry_run
        THEN after /\ UNCHANGED <<store, writeLog>>
        ELSE \E ok \in BOOLEAN :
               /\ Issue([file |-> idx, kind |-> "shared", field |-> entity.name,
                         path |-> SharedPath(entity),
                         data |-> SharedData(entity, Now),
                         merge |-> FALSE, ok |-> ok])
               /\ OnResult(ok, after)
  /\ UNCHANGED <<files, dry_run, run, parsed, exit_code, autoId, snapshot,
                 prev_ok>>

\* one iteration of the loop of push_shared_data_to_firestore
PushSharedEntity ==
  /\ pc = "shared"
  /\ LET entity == parsed.shared_data[sIdx]
         after == IF sIdx < Len(parsed.shared_data)
                  THEN Stay("shared", sIdx + 1, 1, 1)
                  ELSE Stay(PageBranch(parsed.data), 1, 1, 1)
     IN IF dry_run
        THEN after /\ UNCHANGED <<store, writeLog>>
        ELSE \E ok \in BOOLEAN :
               /\ Issue([file |-> idx, kind |-> "shared", field |-> entity.name,
                         path |-> SharedPath(entity),
                         data |-> SharedData(entity, Now),
                         merge |-> TRUE, ok |-> ok])
               /\ OnResult(ok, after)
  /\ UNCHANGED <<files, dry_run, run, parsed, exit_code, autoId, snapshot,
                 prev_ok>>

\* one iteration of the loops over array_fields and items
PushArrayItem ==
  /\ pc = "array"
  /\ LET fields == array_fields(parsed.data)
         array_field == fields[fIdx]
         items == Get(parsed.data, array_field).v
         item == items[iIdx]
         collection_name == ResolveCollection(array_field, parsed.collection_name)
         next_field == IF fIdx < Len(fields)
                       THEN Stay("array", 1, fIdx + 1, 1)
                       ELSE Return(TRUE)
         generated == "auto-" \o ToString(autoId + 1)
         item_id == ItemDocId(item, generated)
         next_item == IF iIdx < Len(items)
                      THEN Stay("array", 1, fIdx, iIdx + 1)
                      ELSE next_field
     IN IF dry_run
        THEN next_field /\ UNCHANGED <<store, writeLog, autoId>>
        ELSE IF ~IsDict(item)
        THEN next_item /\ UNCHANGED <<store, writeLog, autoId>>
        ELSE \E ok \in BOOLEAN :
               /\ Issue([file |-> idx, kind |-> "item", field |-> array_field,
                         path |-> <<collection_name, item_id>>,
                         data |-> ItemData(item, Now),
                         merge |-> FALSE, ok |-> ok])
               /\ autoId' = IF item_id = generated THEN autoId + 1 ELSE autoId
               /\ OnResult(ok, next_item)
  /\ UNCHANGED <<files, dry_run, run, parsed, exit_code, snapshot, prev_ok>>

\* the single-document branch
PushSingleDocument ==
  /\ pc = "single"
  /\ IF dry_run
     THEN Return(TRUE) /\ UNCHANGED <<store, writeLog>>
     ELSE \E ok \in BOOLEAN :
            /\ Issue([file |-> idx, kind |-> "single", field |-> "",
                      path |-> <<parsed.collection_name, parsed.document_id>>,
                      data |-> SingleData(parsed.data, Now),
                      merge |-> FALSE, ok |-> ok])
            /\ Return(ok)
  /\ UNCHANGED <<files, dry_run, run, parsed, exit_code, autoId, snapshot,
                 prev_ok>>

\* PushFallback without the dry-run test
PushFallbackNoDryCheck ==
  /\ pc = "fallback"
  /\ \E ok \in BOOLEAN :
       /\ Issue([file |-> idx, kind |-> "fallback", field |-> "",
                 path |-> <<parsed.collection_name, parsed.document_id>>,
                 data |-> FallbackData(parsed.data, Now),
                 merge |-> FALSE, ok |-> ok])
       /\ Return(ok)
  /\ UNCHANGED <<files, dry_run, run, parsed, exit_code, autoId, snapshot,
                 prev_ok>>

\* the fallback branch
PushFallback ==
  /\ pc = "fallback"
  /\ IF dry_run
     THEN Return(TRUE) /\ UNCHANGED <<store, writeLog>>
     ELSE \E ok \in BOOLEAN :
            /\ Issue([file |-> idx, kind |-> "fallback", field |-> "",
                      path |-> <<parsed.collection_name, parsed.document_id>>,
                      data |-> FallbackData(parsed.data, Now),
                      merge |-> FALSE, ok |-> ok])
            /\ Return(ok)
  /\ UNCHANGED <<files, dry_run, run, parsed, exit_code, autoId, snapshot,
                 prev_ok>>

\* the summary and sys.exit
Summary ==
  /\ pc = "parse"
  /\ idx > Len(files)
  /\ pc' = "done"
  /\ exit_code' = ExitCode(error_count)
  /\ UNCHANGED <<files, dry_run, run, idx, parsed, sIdx, fIdx, iIdx, store,
                 writeLog, outcomes, success_count, error_count, autoId,
                 snapshot, prev_ok>>

\* the script is invoked again over the same, unmodified files
StartRun ==
  /\ pc = "done"
  /\ run < MaxRuns
  /\ run' = run + 1
  /\ dry_run' \in BOOLEAN
  /\ pc' = "scan"
  /\ idx' = 1
  /\ parsed' = NoModel
  /\ writeLog' = <<>>
  /\ outcomes' = <<>>
  /\ success_count' = 0
  /\ error_count' = 0
  /\ exit_code' = -1
  /\ snapshot' = store
  /\ prev_ok' = (~dry_run /\ exit_code = 0)
  /\ UNCHANGED <<files, sIdx, fIdx, iIdx, store, autoId>>

Next ==
  \/ Scan
  \/ ParseFile
  \/ PushSharedEntity
  \/ PushArrayItem
  \/ PushSingleDocument
  \/ PushFallback
  \/ Summary
  \/ StartRun

Spec == Init /\ [][Next]_vars

TypeOK ==
  /\ pc \in {"scan", "parse", "shared", "array", "single", "fallback", "done"}
  /\ run \in 1..MaxRuns
  /\ idx \in 1..(Len(files) + 1)

\* ------------------------------------------------------------------
\* What the properties speak about
\* ------------------------------------------------------------------
InPush == pc \in {"shared", "array", "single", "fallback"}

\* the file `parsed` was read from, when parsed.ok
Cur == IF InPush THEN idx ELSE idx - 1

Input(i) == files[i].json.v

\* the sharedData declaration of a file, in the order of the JSON text
Declared(i) ==
  IF Has(Input(i), "_metadata")
       /\ "sharedData" \in DOMAIN Get(Input(i), "_metadata").v
  THEN Get(Input(i), "_metadata").v["sharedData"]
  ELSE <<>>

\* the `fields` list of a declared entity
FieldsOf(entity) ==
  IF IsDict(entity.val) /\ "fields" \in DOMAIN entity.val.v
  THEN entity.val.v["fields"] ELSE <<>>

DeclaredFields(i) == UNION {Range(FieldsOf(e)) : e \in Range(Declared(i))}

\* the shared entities of `parsed` whose data holds the key
Holders(field) ==
  {j \in DOMAIN parsed.shared_data : field \in DOMAIN parsed.shared_data[j].data}

\* the writes of the whole page payload issued for file i in this run
PayloadWrites(i) ==
  {n \in DOMAIN writeLog :
     writeLog[n].file = i /\ writeLog[n].kind \in {"single", "fallback"}}

AbsentFromPage(field) ==
  /\ field \notin Keys(parsed.data)
  /\ \A n \in PayloadWrites(Cur) : field \notin DOMAIN writeLog[n].data

\* the first declared entity that lists the field
FirstLister(i, field) ==
  CHOOSE j \in DOMAIN Declared(i) :
    /\ field \in Range(FieldsOf(Declared(i)[j]))
    /\ \A h \in 1..(j - 1) : field \notin Range(FieldsOf(Declared(i)[h]))

\* an entity declared before position j bears the field's name and the
\* field holds an object: that entity took the field as its entity object
ConsumedBefore(i, field, j) ==
  /\ IsDict(Get(Input(i), field))
  /\ \E h \in 1..(j - 1) :
       Declared(i)[h].key = field /\ IsDict(Declared(i)[h].val)

\* C1 as stated: every field named in an entity's `fields` list is absent
\* from the page payload and from the page write, and, when the input had
\* it, it is in the data of exactly one shared entity.
C1_Original ==
  parsed.ok =>
    \A field \in DeclaredFields(Cur) :
      /\ AbsentFromPage(field)
      /\ field \in Keys(Input(Cur)) => Cardinality(Holders(field)) = 1

\* C1 (amended): every field named in an entity's `fields` list is absent
\* from the page payload and, unless it bears the name of an injected
\* field, from the page write; when the input had it, it is in the data of
\* the first entity that lists it, unless an entity declared earlier under
\* the field's own name took it as its entity object.
C1_SharedFieldsLeavePayload ==
  parsed.ok =>
    \A field \in DeclaredFields(Cur) :
      /\ field \notin Keys(parsed.data)
      /\ field \notin ProvenanceKeys => AbsentFromPage(field)
      /\ field \in Keys(Input(Cur)) =>
           LET j == FirstLister(Cur, field) IN
             \/ ConsumedBefore(Cur, field, j)
             \/ \E h \in Holders(field) :
                  parsed.shared_data[h].name = Declared(Cur)[j].key

\* a listed field of the input went to a shared entity, and the page write
\* of the remaining payload was issued
C1_Witness ==
  /\ parsed.ok
  /\ PayloadWrites(Cur) # {}
  /\ \E field \in DeclaredFields(Cur) :
       field \in Keys(Input(Cur)) /\ Holders(field) # {}

\* the writes issued for file i in this run
WritesOf(i) == {n \in DOMAIN writeLog : writeLog[n].file = i}

IsPageWrite(w) == w.kind # "shared"

\* C2: in the writes of the file being pushed no shared write follows a
\* page write, a page write comes only after an accepted write of every
\* shared entity of the file, and after a rejected shared write the file has
\* no page write.
C2_SharedBeforePage ==
  parsed.ok =>
    \A n \in WritesOf(Cur) :
      LET w == writeLog[n] IN
        /\ IsPageWrite(w) =>
             /\ \A m \in WritesOf(Cur) : ~IsPageWrite(writeLog[m]) => m < n
             /\ \A e \in DOMAIN parsed.shared_data :
                  \E m \in 1..(n - 1) :
                    /\ writeLog[m].file = Cur
                    /\ writeLog[m].kind = "shared"
                    /\ writeLog[m].field = parsed.shared_data[e].name
                    /\ writeLog[m].ok
        /\ (~IsPageWrite(w) /\ ~w.ok) =>
             \A m \in WritesOf(Cur) : ~IsPageWrite(writeLog[m])

\* a file with two shared writes and then a page write
C2_Witness ==
  \E n \in DOMAIN writeLog :
    /\ IsPageWrite(writeLog[n])
    /\ Cardinality({m \in WritesOf(writeLog[n].file) :
                      m < n /\ ~IsPageWrite(writeLog[m])}) = 2

\* C3: a rejected write is the last write issued for its file, the file is
\* counted as an error, and the run still parses every later file and pushes
\* each one that parses.
C3_RejectionEndsTheFileOnly ==
  /\ \A n \in DOMAIN writeLog :
       ~writeLog[n].ok =>
         /\ \A m \in WritesOf(writeLog[n].file) : m <= n
         /\ Len(outcomes) >= writeLog[n].file
         /\ outcomes[writeLog[n].file] = "push_error"
         /\ error_count >= 1
  /\ pc = "done" =>
       /\ Len(outcomes) = Len(files)
       /\ \A i \in DOMAIN files :
            (parse_model_file(files[i]).ok /\ ~dry_run) => WritesOf(i) # {}

\* the first file's write was rejected while items of it were still to be
\* written, and the second file was pushed
C3_Witness ==
  /\ pc = "done"
  /\ Len(files) = 2
  /\ \E n \in WritesOf(1) :
       /\ ~writeLog[n].ok
       /\ writeLog[n].kind = "item"
       /\ Cardinality(WritesOf(1)) = 1
  /\ \E n \in WritesOf(2) : writeLog[n].ok

Count(what) == Cardinality({i \in DOMAIN outcomes : outcomes[i] = what})

\* C4: when the run over the files ends, the two counts add up to the number
\* of files, a file counts as a success only if it parsed and every write of
\* it was accepted, a file that is no JSON object or cannot be read counts
\* as an error, and the exit code is 0 exactly when no file failed; a run
\* that finds no file exits with 0.
C4_CountsAndExitCode ==
  pc = "done" =>
    IF files = <<>> THEN exit_code = 0
    ELSE /\ success_count + error_count = Len(files)
         /\ Len(outcomes) = Len(files)
         /\ success_count = Count("success")
         /\ \A i \in DOMAIN files :
              /\ outcomes[i] = "success" =>
                   /\ parse_model_file(files[i]).ok
                   /\ \A n \in WritesOf(i) : writeLog[n].ok
              /\ files[i].json.k # "obj" => outcomes[i] = "parse_error"
         /\ exit_code = 0 <=> error_count = 0
         /\ exit_code \in {0, 1}

\* a run over an unreadable file and then a file whose writes are accepted
C4_Witness ==
  /\ pc = "done"
  /\ Len(files) = 2
  /\ files[1].json.k = "unreadable"
  /\ success_count = 1
  /\ error_count = 1
  /\ exit_code = 1
  /\ WritesOf(2) # {}

\* C5: in a dry run no write is issued and the store stays as the run found
\* it, while every file is parsed and every file that parses is counted.
C5_DryRunWritesNothing ==
  dry_run =>
    /\ writeLog = <<>>
    /\ store = snapshot
    /\ pc = "done" /\ files # <<>> =>
         /\ Len(outcomes) = Len(files)
         /\ \A i \in DOMAIN files :
              outcomes[i] = IF parse_model_file(files[i]).ok
                            THEN "success" ELSE "parse_error"

\* a dry run that ends over a store an earlier run has filled
C5_Witness ==
  /\ dry_run
  /\ pc = "done"
  /\ run = 2
  /\ DOMAIN store # {}
  /\ success_count = 2

\* the page payload the parser leaves for file i
PayloadOf(i) == parse_model_file(files[i]).data

\* the item writes issued for an array field of file i
ItemWrites(i, field) ==
  {n \in WritesOf(i) : writeLog[n].kind = "item" /\ writeLog[n].field = field}

\* the push of the file in `parsed` has returned True in a run that writes
PushedForReal ==
  /\ parsed.ok
  /\ ~InPush
  /\ Cur \in DOMAIN outcomes
  /\ outcomes[Cur] = "success"
  /\ ~dry_run

ObjectsIn(items) == {h \in DOMAIN items : items[h].k = "obj"}

\* C6 as stated: for an array-of-objects field, when no write fails, as
\* many documents are written as the array is long, none with an `id` key.
C6_Original ==
  PushedForReal =>
    \A field \in Range(array_fields(parsed.data)) :
      /\ Cardinality(ItemWrites(Cur, field)) = Len(Get(parsed.data, field).v)
      /\ \A n \in ItemWrites(Cur, field) : "id" \notin DOMAIN writeLog[n].data

\* C6 (amended): in a run that is no dry run, for an array-of-objects field,
\* when no write fails, as many documents are written as the array has
\* object elements (an element that is no object is skipped), none of them
\* with an `id` key.
C6_OneWritePerObjectItem ==
  PushedForReal =>
    \A field \in Range(array_fields(parsed.data)) :
      /\ Cardinality(ItemWrites(Cur, field))
           = Cardinality(ObjectsIn(Get(parsed.data, field).v))
      /\ \A n \in ItemWrites(Cur, field) : "id" \notin DOMAIN writeLog[n].data

\* an array of two objects that carry an id was written as two documents
C6_Witness ==
  /\ PushedForReal
  /\ \E field \in Range(array_fields(parsed.data)) :
       LET items == Get(parsed.data, field).v IN
         /\ Len(items) = 2
         /\ \A h \in DOMAIN items : items[h].k = "obj" /\ "id" \in DOMAIN items[h].v
         /\ Cardinality(ItemWrites(Cur, field)) = 2

DocPaths(docs) == DOMAIN docs

\* every object element of every array field of every file has an id that
\* is neither missing nor empty nor zero
EveryItemHasId ==
  \A i \in DOMAIN files :
    parse_model_file(files[i]).ok =>
      \A field \in Range(array_fields(PayloadOf(i))) :
        LET items == Get(PayloadOf(i), field).v IN
          \A h \in ObjectsIn(items) :
            /\ "id" \in DOMAIN items[h].v
            /\ items[h].v["id"].v \notin {"", "0"}

\* this run and the one before it wrote for real and no write was rejected
SecondFullRunEnded ==
  prev_ok /\ ~dry_run /\ pc = "done" /\ exit_code = 0

\* C7 as stated: after a second run over the same files the store holds the
\* same (collection, document id) pairs as after the first run.
C7_Original ==
  SecondFullRunEnded => DocPaths(store) = DocPaths(snapshot)

\* C7 (amended): when every object item has an id of its own, a run that
\* follows a full run over the same files never adds a document: the store
\* holds the same (collection, document id) pairs as after the first run.
C7_SameDocumentsWhenItemsHaveIds ==
  \/ DocPaths(store) = DocPaths(snapshot)
  \/ ~(prev_ok /\ EveryItemHasId)

\* a second full run over an array of two items with ids has ended
C7_Witness ==
  /\ SecondFullRunEnded
  /\ files # <<>>
  /\ EveryItemHasId
  /\ Cardinality({n \in WritesOf(1) : writeLog[n].kind = "item"}) = 2
  /\ Cardinality(DocPaths(store)) >= 2

\* the push of file i reached the page payload in a run that writes: it has
\* returned and no shared write of the file was rejected
ReachedPage(i) ==
  /\ i \in DOMAIN outcomes
  /\ outcomes[i] # "parse_error"
  /\ ~dry_run
  /\ \A n \in WritesOf(i) : writeLog[n].kind = "shared" => writeLog[n].ok

PageWrites(i) == {n \in WritesOf(i) : IsPageWrite(writeLog[n])}

HasArrayField(data) ==
  \E h \in DOMAIN data :
    /\ data[h].val.k = "list"
    /\ data[h].val.v # <<>>
    /\ data[h].val.v[1].k = "obj"

HasObjectField(data) == \E h \in DOMAIN data : data[h].val.k = "obj"

IsDateText(value) == value.k = "str" /\ value.v \in NaiveDates \cup AwareDates

\* the written document carries the whole payload: every field with its
\* value, but for the date fields when dates are normalized
CarriesPayload(doc, data, normalized) ==
  /\ DOMAIN doc = Keys(data) \cup ProvenanceKeys
  /\ \A key \in Keys(data) \ ProvenanceKeys :
       IF normalized /\ key \in DocDateFields /\ IsDateText(Get(data, key))
       THEN doc[key].k = "dt"
       ELSE doc[key] = Get(data, key)

DeclaredName(i) ==
  IF Has(Input(i), "_metadata")
       /\ "collectionName" \in DOMAIN Get(Input(i), "_metadata").v
  THEN Get(Input(i), "_metadata").v["collectionName"]
  ELSE ""

StripOneS(name) ==
  IF EndsWith(name, "s") THEN SubSeq(name, 1, Len(name) - 1) ELSE name

\* the collection C9 gives to the items of an array field of file i
ClaimedCollection(i, field) ==
  IF DeclaredName(i) # "" /\ DeclaredName(i) \in MapValues THEN DeclaredName(i)
  ELSE IF field \in DOMAIN collection_map THEN collection_map[field]
  ELSE StripOneS(field)

\* C9: the items of an array field go to the collection the metadata
\* declares when that name is a target of the alias table, else to the
\* alias of the field name, else to the field name less one trailing "s";
\* a name that only comes from the directory does not override.
C9_Claim ==
  \A n \in DOMAIN writeLog :
    writeLog[n].kind = "item" =>
      writeLog[n].path[1] = ClaimedCollection(writeLog[n].file, writeLog[n].field)

UpperSet == {CharAt(UpperChars, h) : h \in 1..Len(UpperChars)}

IsUpper(c) == c \in UpperSet

WellFormedName(name) ==
  /\ name # ""
  /\ \A h \in 1..Len(name) : ~IsUpper(CharAt(name, h)) /\ CharAt(name, h) # "_"

\* C10 as stated: the collectionName of every parsed model is non-empty,
\* lowercase and free of underscores, from the directory or from metadata.
C10_Original == parsed.ok => WellFormedName(parsed.collection_name)

\* C10 (amended): a name that comes from the directory is "root" for a file
\* in the root and else the parent directory's name, letter for letter, in
\* lowercase with "-" for "_", hence non-empty, lowercase and free of
\* underscores; a name that metadata declares is taken as it is written.
C10_DirectoryNameIsNormalized ==
  parsed.ok =>
    LET dir == files[Cur].dir
        name == parsed.collection_name
    IN IF DeclaredName(Cur) # "" THEN name = DeclaredName(Cur)
       ELSE /\ WellFormedName(name)
            /\ IF dir = <<>> THEN name = "root"
               ELSE LET last == dir[Len(dir)] IN
                    /\ Len(name) = Len(last)
                    /\ \A h \in 1..Len(last) :
                         \/ CharAt(name, h) = CharAt(last, h)
                         \/ CharAt(last, h) = "_" /\ CharAt(name, h) = "-"
                         \/ IsUpper(CharAt(last, h))
                              /\ CharAt(name, h) = LowerChar(CharAt(last, h))

\* a file below Client_Detail, without a declared name, was parsed
C10_Witness ==
  /\ parsed.ok
  /\ DeclaredName(Cur) = ""
  /\ files[Cur].dir = <<"dashboard", "Client_Detail">>
  /\ parsed.collection_name = "client-detail"

\* the file is a JSON object whose `_metadata` is an object
HasMetadata(i) ==
  /\ files[i].json.k = "obj"
  /\ Has(Input(i), "_metadata")
  /\ IsDict(Get(Input(i), "_metadata"))

\* C11: no write has a top-level `_metadata` key, and a file whose
\* `_metadata` is an object is never counted as a parse failure, also when
\* a shared entity lists `_metadata` among its fields or bears that name.
C11_Claim ==
  /\ \A n \in DOMAIN writeLog : "_metadata" \notin DOMAIN writeLog[n].data
  /\ \A i \in DOMAIN outcomes : HasMetadata(i) => outcomes[i] # "parse_error"

\* the segments of a path, joined by "/"
RECURSIVE JoinPath(_)
JoinPath(segments) ==
  IF Len(segments) = 1 THEN segments[1]
  ELSE segments[1] \o "/" \o JoinPath(Tail(segments))

\* the target collection of the shared entity of `parsed` with that name
TargetPath(name) ==
  LET j == CHOOSE h \in DOMAIN parsed.shared_data :
             parsed.shared_data[h].name = name
  IN parsed.shared_data[j].collection

\* the effect on the store of the write a step has issued
WriteEffect(w) ==
  /\ w.merge <=> w.kind = "shared"
  /\ w.kind = "shared" =>
       JoinPath(w.path) = "project-" \o DomainId \o "/" \o TargetPath(w.field)
                            \o "/main"
  /\ ~w.ok => store' = store
  /\ w.ok =>
       /\ DOMAIN store' = (DOMAIN store) \cup {w.path}
       /\ \A p \in (DOMAIN store) \ {w.path} : store'[p] = store[p]
       /\ IF w.kind = "shared"
          THEN LET old == IF w.path \in DOMAIN store THEN store[w.path]
                          ELSE EmptyDoc
               IN /\ DOMAIN store'[w.path] = (DOMAIN old) \cup (DOMAIN w.data)
                  /\ \A key \in (DOMAIN old) \ (DOMAIN w.data) :
                       store'[w.path][key] = old[key]
          ELSE store'[w.path] = w.data

\* C12: a shared write is a merge write to <root>/<targetPath>/main, after
\* which the document has the keys of the written data and still holds
\* every field it had before that the written data does not name; every
\* other write is a replace write, after which the document holds the
\* written data and nothing else;
\* no write touches another document, and a rejected write touches none.
C12_MergeSharedReplaceOthers ==
  [][Len(writeLog') = Len(writeLog) + 1 => WriteEffect(writeLog'[Len(writeLog')])]_vars

\* the last accepted write to a path among those of the log
LastTo(n) ==
  /\ writeLog[n].ok
  /\ \A m \in DOMAIN writeLog :
       (m > n /\ writeLog[m].path = writeLog[n].path) => ~writeLog[m].ok

\* an accepted write before n to the same path that set a key n does not
Shadowed(n, key) ==
  \E m \in 1..(n - 1) :
    /\ writeLog[m].ok
    /\ writeLog[m].path = writeLog[n].path
    /\ key \in (DOMAIN writeLog[m].data) \ (DOMAIN writeLog[n].data)

\* a shared document kept `name` through the merge write of `tier`, and an
\* item document lost `name` to the replace write of `tier`
C12_Witness ==
  /\ \E n \in DOMAIN writeLog :
       /\ writeLog[n].kind = "shared"
       /\ LastTo(n)
       /\ Shadowed(n, "name")
       /\ "name" \in DOMAIN store[writeLog[n].path]
       /\ "tier" \in DOMAIN store[writeLog[n].path]
  /\ \E n \in DOMAIN writeLog :
       /\ writeLog[n].kind = "item"
       /\ LastTo(n)
       /\ Shadowed(n, "name")
       /\ "name" \notin DOMAIN store[writeLog[n].path]
       /\ "tier" \in DOMAIN store[writeLog[n].path]

\* C13: every write issued to the store, of whatever kind, has the three
\* injected fields with the injector's own values: the reading of the clock
\* as text (never turned into a date), the actor identifier and the source
\* marker, also when the input has fields under those names.
C13_EveryWriteIsStamped ==
  \A n \in DOMAIN writeLog :
    LET data == writeLog[n].data IN
      /\ ProvenanceKeys \subseteq DOMAIN data
      /\ data["_injectedAt"] = Str(Now)
      /\ data["_injectedBy"] = Str(firebase_uuid)
      /\ data["_source"] = Str(SourceMarker)

\* a payload with `_injectedBy` among its shared fields and an item with
\* `_source` and `_injectedAt` were written, to a shared document and to an
\* item document
C13_Witness ==
  /\ files # <<>>
  /\ files[1].json.k = "obj"
  /\ Has(Input(1), "_injectedBy")
  /\ Get(Input(1), "_injectedBy") = Str("someone")
  /\ Has(Input(1), "clients")
  /\ Get(Input(1), "clients") = List(<<StampedItem>>)
  /\ \E n \in WritesOf(1) : writeLog[n].kind = "shared" /\ writeLog[n].ok
  /\ \E n \in WritesOf(1) :
       /\ writeLog[n].kind = "item"
       /\ writeLog[n].ok
       /\ store[writeLog[n].path]["_source"] = Str(SourceMarker)

====
